---- MODULE Spec2Model ----
(***************************************************************************)
(* Model of @easy-sync/batching: the BatchManager (enqueue, cancel, the    *)
(* per-handle cancel, the flush timer and triggerBatch) together with the  *)
(* reference schedulers.  Time is the value of Date.now(); the JavaScript  *)
(* runtime's table of scheduled timeouts is part of the state.  The timer  *)
(* callback is taken to run with the manager as its receiver, as the       *)
(* package's tests exercise it.                                            *)
(***************************************************************************)
EXTENDS Integers, Sequences, FiniteSets, TLC

\* ---------------------------------------------------------------- bounds
MaxHandles == 3
MaxTime == 3
WindowMs == 2
DelayMs == 2
MaxWaitMs == 3
MaxBatchSize == 2
MaxLiveHandles == 2

\* ---------------------------------------------------------------- values
Null == -1
Undefined == "undefined"
JsNull == "null"
NoId == <<"none", 0>>
ExplicitIds == {<<"val", 0>>, <<"val", 1>>}
Payloads == {"p1", "p2"}
BatchCancellationError == "BatchCancellationError"
CancelReasons == {Undefined, "reason"}
ProcessorErrors == {"procError", "procError2"}
ThrowOutcomes == {[kind |-> "throw", v |-> "resolverError"], [kind |-> "throw", v |-> Undefined]}
ReturnOutcomes == {[kind |-> "return", v |-> "r1"]}
ResolverOutcomes == ReturnOutcomes \cup ThrowOutcomes

Max(a, b) == IF a >= b THEN a ELSE b
Min(a, b) == IF a <= b THEN a ELSE b

\* ---------------------------------------------------------------- state
NoSignal == "none"
Signals == {"s1"}
\* signal.reason: the AbortError of abort() without argument, or what the
\* caller passed to abort(reason), which may be null
AbortReasons == {"AbortError", JsNull}

VARIABLES now, scheduler, pending, firstRequestTime, lastRequestTime, timer,
          timeouts, handles, signals, calls, winStart, winLast, enqueuedAt

vars == <<now, scheduler, pending, firstRequestTime, lastRequestTime, timer,
          timeouts, handles, signals, calls, winStart, winLast, enqueuedAt>>

\* ---------------------------------------------------------------- schedulers
\* variant: the batch is flushed only once it exceeds the max batch size
FixedWindowDelayStrictSize(s, first, last, batchSize, dateNow) ==
    IF s.maxBatchSize # Null /\ batchSize > s.maxBatchSize
    THEN 0
    ELSE Max(0, s.windowMs - (dateNow - first))

\* variant: the elapsed time is measured from the latest request
FixedWindowDelayFromLast(s, first, last, batchSize, dateNow) ==
    IF s.maxBatchSize # Null /\ batchSize >= s.maxBatchSize
    THEN 0
    ELSE Max(0, s.windowMs - (dateNow - last))

FixedWindowDelay(s, first, last, batchSize, dateNow) ==
    IF s.maxBatchSize # Null /\ batchSize >= s.maxBatchSize
    THEN 0
    ELSE Max(0, s.windowMs - (dateNow - first))

\* variant: the max wait is not taken into account
DebouncedDelayNoMaxWait(s, first, last, batchSize, dateNow) ==
    IF s.maxBatchSize # Null /\ batchSize >= s.maxBatchSize
    THEN 0
    ELSE Max(0, s.delayMs - (dateNow - last))

DebouncedDelay(s, first, last, batchSize, dateNow) ==
    IF s.maxBatchSize # Null /\ batchSize >= s.maxBatchSize
    THEN 0
    ELSE Max(0, Min(s.maxWaitMs - (dateNow - first), s.delayMs - (dateNow - last)))

createFixedWindowScheduler(windowMs, maxBatchSize) ==
    [kind |-> "fixed", windowMs |-> windowMs, delayMs |-> Null,
     maxWaitMs |-> Null, maxBatchSize |-> maxBatchSize]

createDebouncedScheduler(delayMs, maxWaitMs, maxBatchSize) ==
    [kind |-> "debounced", windowMs |-> Null, delayMs |-> delayMs,
     maxWaitMs |-> maxWaitMs, maxBatchSize |-> maxBatchSize]

Scheduler(s, first, last, batchSize, dateNow) ==
    IF s.kind = "fixed"
    THEN FixedWindowDelay(s, first, last, batchSize, dateNow)
    ELSE DebouncedDelay(s, first, last, batchSize, dateNow)

Schedulers ==
    {createFixedWindowScheduler(WindowMs, Null),
     createFixedWindowScheduler(WindowMs, MaxBatchSize),
     createDebouncedScheduler(DelayMs, MaxWaitMs, Null),
     createDebouncedScheduler(DelayMs, MaxWaitMs, MaxBatchSize)}

\* ---------------------------------------------------------------- promises
\* reject / resolve of a promise: only the first settlement takes effect
Reject(hs, h, reason, who) ==
    IF hs[h].state = "pending"
    THEN [hs EXCEPT ![h].state = "rejected", ![h].value = reason,
                    ![h].by = who, ![h].settles = 1]
    ELSE [hs EXCEPT ![h].settles = 2]

Resolve(hs, h, result, who) ==
    IF hs[h].state = "pending"
    THEN [hs EXCEPT ![h].state = "fulfilled", ![h].value = result,
                    ![h].by = who, ![h].settles = 1]
    ELSE [hs EXCEPT ![h].settles = 2]

\* ---------------------------------------------------------------- helpers
RemoveAt(s, i) == SubSeq(s, 1, i - 1) \o SubSeq(s, i + 1, Len(s))

\* Map.get: position of the entry stored under reqId, 0 when absent
PendingIndex(pend, reqId) ==
    IF \E i \in 1..Len(pend) : pend[i].id = reqId
    THEN CHOOSE i \in 1..Len(pend) : pend[i].id = reqId
    ELSE 0

\* entry.requests.findIndex((r) => r.promise === promise), 0 for -1
FindIndex(requests, h) ==
    IF \E i \in 1..Len(requests) : requests[i].promise = h
    THEN CHOOSE i \in 1..Len(requests) :
             /\ requests[i].promise = h
             /\ \A j \in 1..(i - 1) : requests[j].promise # h
    ELSE 0

\* the manager's fields, the runtime's timeouts and the promises as one store
Store == [pending |-> pending, firstRequestTime |-> firstRequestTime,
          lastRequestTime |-> lastRequestTime, timer |-> timer,
          timeouts |-> timeouts, handles |-> handles, signals |-> signals]

ClearExistingTimer(st) ==
    IF st.timer # Null
    THEN [st EXCEPT !.timeouts = {t \in st.timeouts : t.tid # st.timer},
                    !.timer = Null]
    ELSE st

ResetCurrentBatch(st) ==
    [ClearExistingTimer([st EXCEPT !.pending = <<>>])
        EXCEPT !.firstRequestTime = Null, !.lastRequestTime = Null]

\* ---------------------------------------------------------------- handle.cancel
\* reason ?? new BatchCancellationError()
ReasonOrDefault(reason) ==
    IF reason \in {Undefined, JsNull} THEN BatchCancellationError ELSE reason

\* variant: the whole entry is deleted, whatever requests remain in it
HandleCancelDropsEntry(st, h, reason) ==
    LET reqId == st.handles[h].id
        i == PendingIndex(st.pending, reqId)
    IN  IF i = 0 THEN st
        ELSE
          LET entry == st.pending[i]
              idx == FindIndex(entry.requests, h)
          IN  IF idx = 0 THEN st
              ELSE
                LET hs1 == IF ~entry.requests[idx].cancelled
                           THEN Reject(st.handles, h, ReasonOrDefault(reason), "cancel")
                           ELSE st.handles
                    pend1 == RemoveAt(st.pending, i)
                    st1 == [st EXCEPT !.handles = hs1, !.pending = pend1]
                IN  IF Len(pend1) = 0 THEN ResetCurrentBatch(st1) ELSE st1

\* variant: the request to cancel is looked up by identity alone, so the
\* first request of the identity's entry is taken
HandleCancelByIdentity(st, h, reason) ==
    LET reqId == st.handles[h].id
        i == PendingIndex(st.pending, reqId)
    IN  IF i = 0 THEN st
        ELSE
          LET entry == st.pending[i]
              req == entry.requests[1]
              hs1 == IF ~req.cancelled
                     THEN Reject(st.handles, req.promise, ReasonOrDefault(reason), "cancel")
                     ELSE st.handles
              reqs1 == RemoveAt(entry.requests, 1)
              pend1 == IF Len(reqs1) = 0
                       THEN RemoveAt(st.pending, i)
                       ELSE [st.pending EXCEPT ![i].requests = reqs1]
              st1 == [st EXCEPT !.handles = hs1, !.pending = pend1]
          IN  IF Len(pend1) = 0 THEN ResetCurrentBatch(st1) ELSE st1

\* variant: an entry whose last request was cancelled stays in the map
HandleCancelKeepsEmptyEntry(st, h, reason) ==
    LET reqId == st.handles[h].id
        i == PendingIndex(st.pending, reqId)
    IN  IF i = 0 THEN st
        ELSE
          LET entry == st.pending[i]
              idx == FindIndex(entry.requests, h)
          IN  IF idx = 0 THEN st
              ELSE
                LET req == entry.requests[idx]
                    hs1 == IF ~req.cancelled
                           THEN Reject(st.handles, h, ReasonOrDefault(reason), "cancel")
                           ELSE st.handles
                    reqs1 == RemoveAt(entry.requests, idx)
                    pend1 == [st.pending EXCEPT ![i].requests = reqs1]
                IN  [st EXCEPT !.handles = hs1, !.pending = pend1]

\* variant: the batch is not reset when the last request is cancelled
HandleCancelNoReset(st, h, reason) ==
    LET reqId == st.handles[h].id
        i == PendingIndex(st.pending, reqId)
    IN  IF i = 0 THEN st
        ELSE
          LET entry == st.pending[i]
              idx == FindIndex(entry.requests, h)
          IN  IF idx = 0 THEN st
              ELSE
                LET req == entry.requests[idx]
                    hs1 == IF ~req.cancelled
                           THEN Reject(st.handles, h, ReasonOrDefault(reason), "cancel")
                           ELSE st.handles
                    reqs1 == RemoveAt(entry.requests, idx)
                    pend1 == IF Len(reqs1) = 0
                             THEN RemoveAt(st.pending, i)
                             ELSE [st.pending EXCEPT ![i].requests = reqs1]
                IN  [st EXCEPT !.handles = hs1, !.pending = pend1]

\* variant: the request is marked cancelled and rejected but stays in its entry
HandleCancelKeepsRequest(st, h, reason) ==
    LET reqId == st.handles[h].id
        i == PendingIndex(st.pending, reqId)
    IN  IF i = 0 THEN st
        ELSE
          LET entry == st.pending[i]
              idx == FindIndex(entry.requests, h)
          IN  IF idx = 0 THEN st
              ELSE
                LET req == entry.requests[idx]
                    hs1 == IF ~req.cancelled
                           THEN Reject(st.handles, h, ReasonOrDefault(reason), "cancel")
                           ELSE st.handles
                IN  [st EXCEPT !.handles = hs1,
                               !.pending[i].requests[idx].cancelled = TRUE]

\* variant: the handle's own promise is rejected even when the pending map
\* no longer holds its request
HandleCancelAnyHandle(st, h, reason) ==
    LET reqId == st.handles[h].id
        i == PendingIndex(st.pending, reqId)
        rejected == [st EXCEPT !.handles = Reject(@, h, ReasonOrDefault(reason), "cancel")]
    IN  IF i = 0 THEN rejected
        ELSE
          LET entry == st.pending[i]
              idx == FindIndex(entry.requests, h)
          IN  IF idx = 0 THEN rejected
              ELSE
                LET reqs1 == RemoveAt(entry.requests, idx)
                    pend1 == IF Len(reqs1) = 0
                             THEN RemoveAt(st.pending, i)
                             ELSE [st.pending EXCEPT ![i].requests = reqs1]
                    st1 == [rejected EXCEPT !.pending = pend1]
                IN  IF Len(pend1) = 0 THEN ResetCurrentBatch(st1) ELSE st1

HandleCancel(st, h, reason) ==
    LET reqId == st.handles[h].id
        i == PendingIndex(st.pending, reqId)
    IN  IF i = 0 THEN st
        ELSE
          LET entry == st.pending[i]
              idx == FindIndex(entry.requests, h)
          IN  IF idx = 0 THEN st
              ELSE
                LET req == entry.requests[idx]
                    hs1 == IF ~req.cancelled
                           THEN Reject(st.handles, h, ReasonOrDefault(reason), "cancel")
                           ELSE st.handles
                    reqs1 == RemoveAt(entry.requests, idx)
                    pend1 == IF Len(reqs1) = 0
                             THEN RemoveAt(st.pending, i)
                             ELSE [st.pending EXCEPT ![i].requests = reqs1]
                    st1 == [st EXCEPT !.handles = hs1, !.pending = pend1]
                IN  IF Len(pend1) = 0 THEN ResetCurrentBatch(st1) ELSE st1

\* ---------------------------------------------------------------- enqueue
CreatePromiseHandle(st, h, reqId, payload, signal, dateNow) ==
    LET rec == [id |-> reqId, payload |-> payload,
                win |-> IF Len(st.pending) = 0 THEN h ELSE st.handles[h - 1].win,
                state |-> "pending", value |-> Undefined, by |-> "none",
                settles |-> 0, signal |-> signal]
        st1 == [st EXCEPT !.handles = Append(@, rec)]
    IN  IF signal = NoSignal THEN st1
        ELSE IF st1.signals[signal].aborted
             THEN HandleCancel(st1, h, st1.signals[signal].reason)
             ELSE [st1 EXCEPT !.signals[signal].listeners = Append(@, h)]

\* variant: every enqueue restarts the window
ManageTimersAndSchedulerRestart(st, sched, tid, dateNow) ==
    LET first == dateNow
        last == dateNow
        delay == Scheduler(sched, first, last, Len(st.pending), dateNow)
        st1 == ClearExistingTimer([st EXCEPT !.firstRequestTime = first,
                                             !.lastRequestTime = last])
    IN  [st1 EXCEPT !.timer = tid,
                    !.timeouts = @ \cup {[tid |-> tid, deadline |-> dateNow + Max(0, delay)]}]

\* variant: the new timeout is set without clearing the one already armed
ManageTimersAndSchedulerNoClear(st, sched, tid, dateNow) ==
    LET first == IF st.firstRequestTime = Null THEN dateNow ELSE st.firstRequestTime
        last == dateNow
        delay == Scheduler(sched, first, last, Len(st.pending), dateNow)
        st1 == [st EXCEPT !.firstRequestTime = first, !.lastRequestTime = last]
    IN  [st1 EXCEPT !.timer = tid,
                    !.timeouts = @ \cup {[tid |-> tid, deadline |-> dateNow + Max(0, delay)]}]

ManageTimersAndScheduler(st, sched, tid, dateNow) ==
    LET first == IF st.firstRequestTime = Null THEN dateNow ELSE st.firstRequestTime
        last == dateNow
        delay == Scheduler(sched, first, last, Len(st.pending), dateNow)
        st1 == ClearExistingTimer([st EXCEPT !.firstRequestTime = first,
                                             !.lastRequestTime = last])
    IN  [st1 EXCEPT !.timer = tid,
                    !.timeouts = @ \cup {[tid |-> tid, deadline |-> dateNow + Max(0, delay)]}]

\* variant: a repeated identity replaces the entry's payload
EnqueueOpOverwritePayload(st, sched, idOpt, payload, signal, dateNow) ==
    LET h == Len(st.handles) + 1
        reqId == IF idOpt = NoId THEN <<"sym", h>> ELSE idOpt
        i == PendingIndex(st.pending, reqId)
        st1 == CreatePromiseHandle(st, h, reqId, payload, signal, dateNow)
        request == [promise |-> h, cancelled |-> FALSE]
        st2 == IF i # 0
               THEN [st1 EXCEPT !.pending[i].requests = Append(@, request),
                                !.pending[i].payload = payload]
               ELSE [st1 EXCEPT !.pending =
                        Append(@, [id |-> reqId, payload |-> payload,
                                   requests |-> <<request>>, creator |-> h])]
    IN  ManageTimersAndScheduler(st2, sched, h, dateNow)

\* variant: one shared symbol stands in for every missing identity
EnqueueOpSharedSymbol(st, sched, idOpt, payload, signal, dateNow) ==
    LET h == Len(st.handles) + 1
        reqId == IF idOpt = NoId THEN <<"sym", 0>> ELSE idOpt
        i == PendingIndex(st.pending, reqId)
        st1 == CreatePromiseHandle(st, h, reqId, payload, signal, dateNow)
        request == [promise |-> h, cancelled |-> FALSE]
        st2 == IF i # 0
               THEN [st1 EXCEPT !.pending[i].requests = Append(@, request)]
               ELSE [st1 EXCEPT !.pending =
                        Append(@, [id |-> reqId, payload |-> payload,
                                   requests |-> <<request>>, creator |-> h])]
    IN  ManageTimersAndScheduler(st2, sched, h, dateNow)

EnqueueOp(st, sched, idOpt, payload, signal, dateNow) ==
    LET h == Len(st.handles) + 1
        reqId == IF idOpt = NoId THEN <<"sym", h>> ELSE idOpt
        i == PendingIndex(st.pending, reqId)
        st1 == CreatePromiseHandle(st, h, reqId, payload, signal, dateNow)
        request == [promise |-> h, cancelled |-> FALSE]
        st2 == IF i # 0
               THEN [st1 EXCEPT !.pending[i].requests = Append(@, request)]
               ELSE [st1 EXCEPT !.pending =
                        Append(@, [id |-> reqId, payload |-> payload,
                                   requests |-> <<request>>, creator |-> h])]
    IN  ManageTimersAndScheduler(st2, sched, h, dateNow)

\* ---------------------------------------------------------------- cancel
EntryHandles(entry) == {entry.requests[j].promise : j \in 1..Len(entry.requests)}

LiveHandles(entry) ==
    {entry.requests[j].promise :
        j \in {k \in 1..Len(entry.requests) : ~entry.requests[k].cancelled}}

EntriesHandles(entries) == UNION {EntryHandles(entries[i]) : i \in 1..Len(entries)}

RejectEach(hs, hset, reason, who) ==
    [h \in DOMAIN hs |-> IF h \in hset THEN Reject(hs, h, reason, who)[h] ELSE hs[h]]

\* variant: cancel(id) resets the batch whatever else is pending
CancelOpIdResetsBatch(st, id) ==
    IF id = NoId
    THEN LET live == UNION {LiveHandles(st.pending[i]) : i \in 1..Len(st.pending)}
         IN  ResetCurrentBatch(
                 [st EXCEPT !.handles = RejectEach(@, live, BatchCancellationError, "cancel")])
    ELSE LET i == PendingIndex(st.pending, id)
         IN  IF i = 0 THEN st
             ELSE ResetCurrentBatch(
                     [st EXCEPT !.handles = RejectEach(@, LiveHandles(st.pending[i]),
                                                       BatchCancellationError, "cancel"),
                                !.pending = RemoveAt(@, i)])

\* variant: cancel() empties the map and the timestamps but leaves the timer
CancelOpKeepsTimer(st, id) ==
    IF id = NoId
    THEN LET live == UNION {LiveHandles(st.pending[i]) : i \in 1..Len(st.pending)}
         IN  [st EXCEPT !.handles = RejectEach(@, live, BatchCancellationError, "cancel"),
                        !.pending = <<>>,
                        !.firstRequestTime = Null, !.lastRequestTime = Null]
    ELSE LET i == PendingIndex(st.pending, id)
         IN  IF i = 0 THEN st
             ELSE LET st1 == [st EXCEPT
                                 !.handles = RejectEach(@, LiveHandles(st.pending[i]),
                                                        BatchCancellationError, "cancel"),
                                 !.pending = RemoveAt(@, i)]
                  IN  IF Len(st1.pending) = 0 THEN ResetCurrentBatch(st1) ELSE st1

CancelOp(st, id) ==
    IF id = NoId
    THEN LET live == UNION {LiveHandles(st.pending[i]) : i \in 1..Len(st.pending)}
         IN  ResetCurrentBatch(
                 [st EXCEPT !.handles = RejectEach(@, live, BatchCancellationError, "cancel")])
    ELSE LET i == PendingIndex(st.pending, id)
         IN  IF i = 0 THEN st
             ELSE LET st1 == [st EXCEPT
                                 !.handles = RejectEach(@, LiveHandles(st.pending[i]),
                                                        BatchCancellationError, "cancel"),
                                 !.pending = RemoveAt(@, i)]
                  IN  IF Len(st1.pending) = 0 THEN ResetCurrentBatch(st1) ELSE st1

\* ---------------------------------------------------------------- abort
\* the abort event of signal s: its listeners run in the order they were
\* added; each cancels its handle with signal.reason and removes itself
RECURSIVE DispatchAbort(_, _, _)
DispatchAbort(st, s, ls) ==
    IF Len(ls) = 0 THEN st
    ELSE LET h == Head(ls)
             st1 == HandleCancel(st, h, st.signals[s].reason)
             st2 == [st1 EXCEPT !.signals[s].listeners = SelectSeq(@, LAMBDA g : g # h)]
         IN  DispatchAbort(st2, s, Tail(ls))

\* controller.abort(reason) of the controller that owns signal s
AbortOp(st, s, reason) ==
    IF st.signals[s].aborted THEN st
    ELSE LET st1 == [st EXCEPT !.signals[s].aborted = TRUE,
                               !.signals[s].reason = reason]
         IN  DispatchAbort(st1, s, st1.signals[s].listeners)

\* ---------------------------------------------------------------- triggerBatch
\* variant: the units are listed from the newest entry to the oldest
RequestListReversed(entries) ==
    [i \in 1..Len(entries) |-> [id |-> entries[Len(entries) + 1 - i].id,
                                payload |-> entries[Len(entries) + 1 - i].payload]]

\* currentBatchEntries.map(({ id, payload }) => ({ id, payload }))
RequestList(entries) ==
    [i \in 1..Len(entries) |-> [id |-> entries[i].id, payload |-> entries[i].payload]]

\* variant: the processor is invoked whatever the size of the snapshot
TriggerBatchNoEmptyCheck(st, cs, dateNow, t0, tLast) ==
    LET currentBatchEntries == st.pending
        st1 == ResetCurrentBatch(st)
    IN  [st |-> st1,
         calls |-> Append(cs, [at |-> dateNow, t0 |-> t0, tLast |-> tLast,
                               win |-> IF Len(currentBatchEntries) = 0 THEN 0
                                       ELSE st.handles[currentBatchEntries[1].requests[1].promise].win,
                               entries |-> currentBatchEntries,
                               units |-> RequestList(currentBatchEntries),
                               status |-> "inflight",
                               error |-> Undefined,
                               resolverCalls |-> <<>>])]

\* variant: the snapshot is taken after the reset
TriggerBatchResetFirst(st, cs, dateNow, t0, tLast) ==
    [st |-> ResetCurrentBatch(st), calls |-> cs]

\* variant: the pending state is not reset before the processor is invoked
TriggerBatchNoReset(st, cs, dateNow, t0, tLast) ==
    LET currentBatchEntries == st.pending
    IN  IF Len(currentBatchEntries) = 0
        THEN [st |-> ResetCurrentBatch(st), calls |-> cs]
        ELSE [st |-> st,
              calls |-> Append(cs, [at |-> dateNow, t0 |-> t0, tLast |-> tLast,
                                    win |-> st.handles[currentBatchEntries[1].requests[1].promise].win,
                                    entries |-> currentBatchEntries,
                                    units |-> [i \in 1..Len(currentBatchEntries) |->
                                                 [id |-> currentBatchEntries[i].id,
                                                  payload |-> currentBatchEntries[i].payload]],
                                    status |-> "inflight",
                                    error |-> Undefined,
                                    resolverCalls |-> <<>>])]

\* up to the await: snapshot, reset, and the processor invocation (if any)
TriggerBatch(st, cs, dateNow, t0, tLast) ==
    LET currentBatchEntries == st.pending
        st1 == ResetCurrentBatch(st)
    IN  IF Len(currentBatchEntries) = 0
        THEN [st |-> st1, calls |-> cs]
        ELSE [st |-> st1,
              calls |-> Append(cs, [at |-> dateNow, t0 |-> t0, tLast |-> tLast,
                                    win |-> st.handles[currentBatchEntries[1].requests[1].promise].win,
                                    entries |-> currentBatchEntries,
                                    units |-> RequestList(currentBatchEntries),
                                    status |-> "inflight",
                                    error |-> Undefined,
                                    resolverCalls |-> <<>>])]

\* variant: only the first entry's requests are rejected
RejectBatchFirstEntry(hs, entries, error) ==
    RejectEach(hs, LiveHandles(entries[1]), error, "processor")

\* the catch block: the processor failed with error
RejectBatch(hs, entries, error) ==
    RejectEach(hs, UNION {LiveHandles(entries[i]) : i \in 1..Len(entries)},
               error, "processor")

AllCancelled(entry) == \A j \in 1..Len(entry.requests) : entry.requests[j].cancelled

\* variant: only the first request of the entry is settled
SettleEntryFirstOnly(hs, entry, outcome) ==
    LET h == entry.requests[1].promise
    IN  IF entry.requests[1].cancelled THEN hs
        ELSE IF outcome.kind = "throw" /\ outcome.v # Undefined
             THEN Reject(hs, h, outcome.v, "resolver")
             ELSE Resolve(hs, h, IF outcome.kind = "return" THEN outcome.v ELSE Undefined,
                          "flush")

\* variant: the result goes to every handle of the entry's identity,
\* whichever snapshot or map holds it
SettleEntryById(hs, entry, outcome) ==
    LET entryError == IF outcome.kind = "throw" THEN outcome.v ELSE Undefined
        entryResult == IF outcome.kind = "return" THEN outcome.v ELSE Undefined
    IN  [h \in DOMAIN hs |->
            IF hs[h].id = entry.id
            THEN IF entryError # Undefined
                 THEN Reject(hs, h, entryError, "resolver")[h]
                 ELSE Resolve(hs, h, entryResult, "flush")[h]
            ELSE hs[h]]

\* one entry of the resolution loop, given what the resolver did for it
SettleEntry(hs, entry, outcome) ==
    LET entryError == IF outcome.kind = "throw" THEN outcome.v ELSE Undefined
        entryResult == IF outcome.kind = "return" THEN outcome.v ELSE Undefined
    IN  [h \in DOMAIN hs |->
            IF h \in LiveHandles(entry)
            THEN IF entryError # Undefined
                 THEN Reject(hs, h, entryError, "resolver")[h]
                 ELSE Resolve(hs, h, entryResult, "flush")[h]
            ELSE hs[h]]

RECURSIVE SettleEntries(_, _, _, _)
SettleEntries(hs, entries, outcomes, i) ==
    IF i > Len(entries) THEN hs
    ELSE IF AllCancelled(entries[i])
         THEN SettleEntries(hs, entries, outcomes, i + 1)
         ELSE SettleEntries(SettleEntry(hs, entries[i], outcomes[i]),
                            entries, outcomes, i + 1)

\* the requests the resolver was invoked with, in order
ResolverCalls(entries, outcomes) ==
    LET idxs == SelectSeq([i \in 1..Len(entries) |-> i],
                          LAMBDA i : ~AllCancelled(entries[i]))
    IN  [k \in 1..Len(idxs) |-> [id |-> entries[idxs[k]].id,
                                 payload |-> entries[idxs[k]].payload,
                                 outcome |-> outcomes[idxs[k]]]]

\* ---------------------------------------------------------------- actions
Commit(st) ==
    /\ pending' = st.pending
    /\ firstRequestTime' = st.firstRequestTime
    /\ lastRequestTime' = st.lastRequestTime
    /\ timer' = st.timer
    /\ timeouts' = st.timeouts
    /\ handles' = st.handles
    /\ signals' = st.signals
    \* observers: when the current accumulation window began and was last joined
    /\ winStart' = IF Len(st.pending) = 0 THEN Null
                   ELSE IF Len(pending) = 0 THEN now ELSE winStart
    /\ winLast' = IF Len(st.pending) = 0 THEN Null
                  ELSE IF Len(st.handles) > Len(handles) THEN now ELSE winLast
    \* observer: when each handle of the pending map was enqueued
    /\ enqueuedAt' = [h \in EntriesHandles(st.pending) |->
                         IF h \in DOMAIN enqueuedAt THEN enqueuedAt[h] ELSE now]

Init ==
    /\ now = 0
    /\ scheduler \in Schedulers
    /\ pending = <<>>
    /\ firstRequestTime = Null
    /\ lastRequestTime = Null
    /\ timer = Null
    /\ timeouts = {}
    /\ handles = <<>>
    /\ signals = [s \in Signals |-> [aborted |-> FALSE, reason |-> Undefined,
                                     listeners |-> <<>>]]
    /\ calls = <<>>
    /\ winStart = Null
    /\ winLast = Null
    /\ enqueuedAt = <<>>

Enqueue(idOpt, payload, signal) ==
    /\ Len(handles) < MaxHandles
    /\ Commit(EnqueueOp(Store, scheduler, idOpt, payload, signal, now))
    /\ UNCHANGED <<now, scheduler, calls>>

Cancel(id) ==
    /\ Commit(CancelOp(Store, id))
    /\ UNCHANGED <<now, scheduler, calls>>

HandleCancelCall(h, reason) ==
    /\ h \in 1..Len(handles)
    /\ Commit(HandleCancel(Store, h, reason))
    /\ UNCHANGED <<now, scheduler, calls>>

TimerFire(t) ==
    /\ t \in timeouts
    /\ now >= t.deadline
    /\ LET r == TriggerBatch([Store EXCEPT !.timeouts = @ \ {t}], calls, now,
                              winStart, winLast)
       IN  /\ Commit(r.st)
           /\ calls' = r.calls
    /\ UNCHANGED <<now, scheduler>>

ProcessorResolve(k, outcomes) ==
    /\ k \in 1..Len(calls)
    /\ calls[k].status = "inflight"
    /\ outcomes \in [1..Len(calls[k].entries) -> ResolverOutcomes]
    /\ handles' = SettleEntries(handles, calls[k].entries, outcomes, 1)
    /\ calls' = [calls EXCEPT ![k].status = "resolved",
                              ![k].at = Null, ![k].t0 = Null, ![k].tLast = Null,
                              ![k].resolverCalls = ResolverCalls(calls[k].entries, outcomes)]
    /\ UNCHANGED <<now, scheduler, pending, firstRequestTime, lastRequestTime,
                   timer, timeouts, signals, winStart, winLast, enqueuedAt>>

ProcessorReject(k, error) ==
    /\ k \in 1..Len(calls)
    /\ calls[k].status = "inflight"
    /\ handles' = RejectBatch(handles, calls[k].entries, error)
    /\ calls' = [calls EXCEPT ![k].status = "rejected", ![k].error = error,
                              ![k].at = Null, ![k].t0 = Null, ![k].tLast = Null]
    /\ UNCHANGED <<now, scheduler, pending, firstRequestTime, lastRequestTime,
                   timer, timeouts, signals, winStart, winLast, enqueuedAt>>

Tick ==
    /\ now < MaxTime
    /\ now' = now + 1
    /\ UNCHANGED <<scheduler, pending, firstRequestTime, lastRequestTime, timer,
                   timeouts, handles, signals, calls, winStart, winLast, enqueuedAt>>

KnownIds == ExplicitIds \cup {handles[h].id : h \in 1..Len(handles)}

Next ==
    \/ \E idOpt \in ExplicitIds, payload \in Payloads :
          Enqueue(idOpt, payload, NoSignal)
    \/ \E id \in KnownIds \cup {NoId} : Cancel(id)
    \/ \E h \in 1..Len(handles), reason \in CancelReasons : HandleCancelCall(h, reason)
    \/ \E t \in timeouts : TimerFire(t)
    \/ \E k \in 1..Len(calls) :
          \E outcomes \in [1..Len(calls[k].entries) -> ResolverOutcomes] :
             ProcessorResolve(k, outcomes)
    \/ \E k \in 1..Len(calls), error \in ProcessorErrors : ProcessorReject(k, error)
    \/ Tick

Spec == Init /\ [][Next]_vars

\* timers that fire on time: the clock does not pass an armed deadline
TickPunctual ==
    /\ \A t \in timeouts : now < t.deadline
    /\ Tick

NextPunctual ==
    \/ \E idOpt \in ExplicitIds, payload \in Payloads :
          Enqueue(idOpt, payload, NoSignal)
    \/ \E id \in KnownIds \cup {NoId} : Cancel(id)
    \/ \E h \in 1..Len(handles), reason \in CancelReasons : HandleCancelCall(h, reason)
    \/ \E t \in timeouts : TimerFire(t)
    \/ \E k \in 1..Len(calls) :
          \E outcomes \in [1..Len(calls[k].entries) -> ResolverOutcomes] :
             ProcessorResolve(k, outcomes)
    \/ \E k \in 1..Len(calls), error \in ProcessorErrors : ProcessorReject(k, error)
    \/ TickPunctual

SpecPunctual == Init /\ [][NextPunctual]_vars

\* ---------------------------------------------------------------- with signals
Abort(s, reason) ==
    /\ ~signals[s].aborted
    /\ Commit(AbortOp(Store, s, reason))
    /\ UNCHANGED <<now, scheduler, calls>>

\* enqueues with and without an identity, with and without a signal
AbortIds == {<<"val", 0>>, NoId}

InitFixedWindow ==
    /\ Init
    /\ scheduler = createFixedWindowScheduler(WindowMs, Null)

NextAbort ==
    \/ \E idOpt \in AbortIds, signal \in Signals \cup {NoSignal} :
          Enqueue(idOpt, "p1", signal)
    \/ \E s \in Signals, reason \in AbortReasons : Abort(s, reason)
    \/ \E id \in KnownIds \cup {NoId} : Cancel(id)
    \/ \E h \in 1..Len(handles), reason \in CancelReasons : HandleCancelCall(h, reason)
    \/ \E t \in timeouts : TimerFire(t)
    \/ \E k \in 1..Len(calls) :
          \E outcomes \in [1..Len(calls[k].entries) -> ResolverOutcomes] :
             ProcessorResolve(k, outcomes)
    \/ \E k \in 1..Len(calls), error \in ProcessorErrors : ProcessorReject(k, error)
    \/ Tick

SpecAbort == InitFixedWindow /\ [][NextAbort]_vars

\* ---------------------------------------------------------------- generated identities
NextAutoId ==
    \/ \E idOpt \in AbortIds, payload \in Payloads :
          Enqueue(idOpt, payload, NoSignal)
    \/ \E id \in KnownIds \cup {NoId} : Cancel(id)
    \/ \E h \in 1..Len(handles), reason \in CancelReasons : HandleCancelCall(h, reason)
    \/ \E t \in timeouts : TimerFire(t)
    \/ \E k \in 1..Len(calls) :
          \E outcomes \in [1..Len(calls[k].entries) -> ResolverOutcomes] :
             ProcessorResolve(k, outcomes)
    \/ \E k \in 1..Len(calls), error \in ProcessorErrors : ProcessorReject(k, error)
    \/ Tick

SpecAutoId == Init /\ [][NextAutoId]_vars

\* ---------------------------------------------------------------- resolvers
\* identities by type: <<"val", n>> is the number n, <<"str", n>> the string
\* of n's decimal digits, <<"sym", h>> a symbol
ResolverIds == ExplicitIds \cup {<<"str", 0>>}
Results == {"r1", "r2"}

\* ToPropertyKey: a number is looked up on an object under its string
PropertyKey(id) == IF id[1] = "val" THEN <<"str", id[2]>> ELSE id

\* combined responses: an ordinary object (properties), a Map (keys compared
\* as the pending map compares them) and an array (positions from 0)
RecordResponses ==
    {[kind |-> "record", m |-> f] :
        f \in UNION {[K -> Results] : K \in SUBSET {<<"str", 0>>, <<"str", 1>>}}}
MapResponses ==
    {[kind |-> "map", m |-> f] :
        f \in UNION {[K -> Results] : K \in SUBSET {<<"val", 0>>, <<"str", 0>>}}}
ArrayResponses ==
    {[kind |-> "array", m |-> f] : f \in UNION {[1..n -> Results] : n \in 0..2}}

\* variant: no case for a Map response, every response is read as an object
createKeyResolverNoMapCase(combinedResponse, request) ==
    LET idKey == PropertyKey(request.id)
    IN  IF combinedResponse.kind = "record" /\ idKey \in DOMAIN combinedResponse.m
        THEN combinedResponse.m[idKey]
        ELSE Undefined

createKeyResolver(combinedResponse, request) ==
    LET idKey == request.id
    IN  IF combinedResponse.kind = "map"
        THEN IF idKey \in DOMAIN combinedResponse.m
             THEN combinedResponse.m[idKey] ELSE Undefined
        ELSE IF PropertyKey(idKey) \in DOMAIN combinedResponse.m
             THEN combinedResponse.m[PropertyKey(idKey)] ELSE Undefined

createArrayIndexResolver(combinedResponse, request) ==
    LET idKey == request.id[2]
    IN  IF idKey + 1 \in DOMAIN combinedResponse.m
        THEN combinedResponse.m[idKey + 1] ELSE Undefined

ReferenceResolvers == {"key", "arrayIndex"}

\* the responses a manager built with the resolver can be given for a list
\* of requests, by the resolver's type
ResponsesFor(res, entries) ==
    IF res = "key" THEN RecordResponses \cup MapResponses
    ELSE IF \A i \in 1..Len(entries) : entries[i].id[1] = "val"
         THEN ArrayResponses ELSE {}

\* the processor fulfils invocation k with a combined response and the
\* resolution loop runs with the reference resolver
ProcessorRespond(k, res, response) ==
    /\ k \in 1..Len(calls)
    /\ calls[k].status = "inflight"
    /\ response \in ResponsesFor(res, calls[k].entries)
    /\ LET units == RequestList(calls[k].entries)
           outcomes == [i \in 1..Len(units) |->
                          [kind |-> "return",
                           v |-> IF res = "key"
                                 THEN createKeyResolver(response, units[i])
                                 ELSE createArrayIndexResolver(response, units[i])]]
       IN  /\ handles' = SettleEntries(handles, calls[k].entries, outcomes, 1)
           /\ calls' = [calls EXCEPT ![k].status = "resolved",
                                     ![k].at = Null, ![k].t0 = Null, ![k].tLast = Null,
                                     ![k].resolverCalls =
                                        ResolverCalls(calls[k].entries, outcomes)]
    /\ UNCHANGED <<now, scheduler, pending, firstRequestTime, lastRequestTime,
                   timer, timeouts, signals, winStart, winLast, enqueuedAt>>

NextResolvers ==
    \/ \E idOpt \in ResolverIds : Enqueue(idOpt, "p1", NoSignal)
    \/ \E h \in 1..Len(handles) : HandleCancelCall(h, Undefined)
    \/ \E t \in timeouts : TimerFire(t)
    \/ \E k \in 1..Len(calls), res \in ReferenceResolvers :
          \E response \in ResponsesFor(res, calls[k].entries) :
             ProcessorRespond(k, res, response)
    \/ Tick

SpecResolvers == InitFixedWindow /\ [][NextResolvers]_vars

TypeOK == Len(handles) <= MaxHandles

\* ---------------------------------------------------------------- vocabulary of the claims
HandleSet == 1..Len(handles)
CallSet == 1..Len(calls)
CallHandles(c) == EntriesHandles(c.entries)
PendingHandles == EntriesHandles(pending)
InFlightHandles ==
    UNION {CallHandles(calls[k]) : k \in {j \in CallSet : calls[j].status = "inflight"}}
\* the handles enqueued in accumulation window w
WindowHandles(w) == {h \in HandleSet : handles[h].win = w}
Unit(h) == [id |-> handles[h].id, payload |-> handles[h].payload]
UnitSet(c) == {c.units[i] : i \in 1..Len(c.units)}
DistinctIds(hset) == \A a, b \in hset : a # b => handles[a].id # handles[b].id
Cancelled(h) == handles[h].state = "rejected" /\ handles[h].by = "cancel"
Completed(c) == c.status # "inflight"

UnitsBacked ==
    /\ \A k \in CallSet :
          \A i \in 1..Len(calls[k].units) :
             \E h \in EntryHandles(calls[k].entries[i]) :
                /\ handles[h].id = calls[k].units[i].id
                /\ ~Cancelled(h)
    /\ \A h \in HandleSet :
          /\ handles[h].state = "pending" => h \in PendingHandles \cup InFlightHandles
          /\ Cancelled(h) => h \notin PendingHandles \cup InFlightHandles
          /\ Cancelled(h) => \A k \in CallSet : h \notin CallHandles(calls[k])

C4_Post(h, reason) ==
    LET id == handles[h].id
        i == PendingIndex(pending, id)
        siblings == EntryHandles(pending[i]) \ {h}
        j == PendingIndex(pending', id)
    IN  /\ (handles[h].state = "rejected" /\ handles[h].by = "cancel")'
        /\ \A g \in HandleSet \ {h} : handles'[g] = handles[g]
        /\ calls' = calls
        /\ siblings # {} =>
              /\ j # 0
              /\ EntryHandles(pending'[j]) = siblings
              /\ pending'[j].payload = pending[i].payload
              /\ Len(pending') = Len(pending)
              /\ \A g \in siblings : handles'[g].state = "pending"
        /\ siblings = {} =>
              /\ j = 0
              /\ Len(pending') = Len(pending) - 1

C5_CancelAllPost ==
    /\ \A h \in PendingHandles :
          /\ handles'[h].state = "rejected"
          /\ handles'[h].value = BatchCancellationError
          /\ handles'[h].by = "cancel"
    /\ \A h \in HandleSet \ PendingHandles : handles'[h] = handles[h]
    /\ pending' = <<>>
    /\ timer' = Null
    /\ timeouts' = {}
    /\ firstRequestTime' = Null
    /\ lastRequestTime' = Null
    /\ calls' = calls

C5_FreshWindowPost ==
    /\ firstRequestTime' = now
    /\ lastRequestTime' = now
    /\ Len(pending') = 1
    /\ timer' # Null
    /\ timeouts' = {[tid |-> timer',
                     deadline |-> now + Scheduler(scheduler, now, now, 1, now)]}

\* C5: cancel() with no argument rejects every handle of the pending map
\* with a BatchCancellationError and touches no other handle; it leaves the
\* map empty, no timer armed and both timestamps cleared, and invokes
\* nothing, and a cancelled handle is in the snapshot of no invocation; an
\* enqueue into the empty manager starts a window whose start is the time
\* of that enqueue, with a timer armed from that time.
C5_CancelAllResets ==
    [][/\ Cancel(NoId) => C5_CancelAllPost
       /\ (Len(pending) = 0 /\ Len(handles') > Len(handles)) => C5_FreshWindowPost
       /\ (\A h \in HandleSet :
              Cancelled(h) => \A k \in CallSet : h \notin CallHandles(calls[k]))']_vars

C5_Witness ==
    /\ Len(handles) = 3
    /\ Cancelled(1) /\ Cancelled(2)
    /\ handles[1].win = handles[2].win
    /\ handles[1].id # handles[2].id
    /\ handles[1].value = BatchCancellationError
    /\ handles[2].value = BatchCancellationError
    /\ calls = <<>>
    /\ PendingHandles = {3}
    /\ firstRequestTime = now
    /\ now > 0

C7_ResolverFailureRejectsEntry ==
    \A k \in CallSet :
       calls[k].status = "resolved" =>
          \A r \in 1..Len(calls[k].resolverCalls) :
             LET rc == calls[k].resolverCalls[r]
                 e == calls[k].entries[PendingIndex(calls[k].entries, rc.id)]
             IN  \A h \in EntryHandles(e) :
                    IF rc.outcome.kind = "throw"
                    THEN /\ handles[h].state = "rejected"
                         /\ handles[h].value = rc.outcome.v
                    ELSE /\ handles[h].state = "fulfilled"
                         /\ handles[h].value = rc.outcome.v

\* the same statement for the thrown values other than undefined
C7_DefinedFailureRejectsEntry ==
    \A k \in CallSet :
       calls[k].status = "resolved" =>
          \A r \in 1..Len(calls[k].resolverCalls) :
             LET rc == calls[k].resolverCalls[r]
                 e == calls[k].entries[PendingIndex(calls[k].entries, rc.id)]
             IN  \A h \in EntryHandles(e) :
                    IF rc.outcome.kind = "throw" /\ rc.outcome.v # Undefined
                    THEN /\ handles[h].state = "rejected"
                         /\ handles[h].value = rc.outcome.v
                    ELSE /\ handles[h].state = "fulfilled"
                         /\ handles[h].value =
                               IF rc.outcome.kind = "return" THEN rc.outcome.v ELSE Undefined

\* ---------------------------------------------------------------- C8
C8_FlushPost ==
    /\ pending' = <<>>
    /\ timer' = Null
    /\ timeouts' = {}
    /\ firstRequestTime' = Null
    /\ lastRequestTime' = Null
    /\ Len(calls') = Len(calls) + 1
    /\ \A k \in CallSet : calls'[k] = calls[k]
    /\ calls'[Len(calls')].entries = pending
    /\ calls'[Len(calls')].status = "inflight"
    /\ handles' = handles

C8_EnqueuePost(idOpt, payload) ==
    LET h == Len(handles) + 1
    IN  /\ calls' = calls
        /\ Len(handles') = h
        /\ \A g \in HandleSet : handles'[g] = handles[g]
        /\ Cardinality({i \in 1..Len(pending') : h \in EntryHandles(pending'[i])}) = 1
        /\ timer' = h
        /\ Len(pending) = 0 =>
              /\ pending' = <<[id |-> idOpt, payload |-> payload,
                               requests |-> <<[promise |-> h, cancelled |-> FALSE]>>,
                               creator |-> h]>>
              /\ firstRequestTime' = now
              /\ lastRequestTime' = now
              /\ timeouts' = {[tid |-> h,
                               deadline |-> now + Scheduler(scheduler, now, now, 1, now)]}

IsFixedWindow == scheduler.kind = "fixed" /\ scheduler.maxBatchSize = Null

IsDebounced == scheduler.kind = "debounced" /\ scheduler.maxBatchSize = Null

C11_PreAbortedHandleCancelled ==
    [][/\ \A idOpt \in AbortIds : \A s \in Signals :
             (signals[s].aborted /\ Enqueue(idOpt, "p1", s)) =>
                /\ handles'[Len(handles')].state = "rejected"
                /\ handles'[Len(handles')].value = signals[s].reason
                /\ Len(handles') \notin EntriesHandles(pending')
       /\ \A h \in HandleSet : Cancelled(h) => handles'[h] = handles[h]]_vars

\* ---------------------------------------------------------------- C12
\* what an abort of signal s with the given reason does to the handles that
\* were enqueued with s and are in the pending map
C12_AbortPost(s, reason) ==
    LET H == {h \in PendingHandles : handles[h].signal = s}
    IN  /\ \A h \in H :
              /\ handles'[h].state = "rejected"
              /\ handles'[h].value = reason
              /\ handles'[h].value # BatchCancellationError
              /\ handles'[h].settles = 1
              /\ h \notin EntriesHandles(pending')
        /\ \A g \in HandleSet \ H : handles'[g] = handles[g]
        /\ calls' = calls
        /\ EntriesHandles(pending') = PendingHandles \ H
        /\ PendingHandles \subseteq H =>
              /\ pending' = <<>>
              /\ timer' = Null
              /\ timeouts' = {}

\* C12 as written: when a signal aborts, whatever its reason, every handle
\* enqueued with it that is still in the pending map is rejected exactly
\* once with the signal's reason, which is not a BatchCancellationError, and
\* leaves the pending map; when no other handle was pending nothing stays
\* armed, so the processor is not invoked.
C12_AbortRejectsWithReason ==
    [][\A s \in Signals : \A reason \in AbortReasons :
          Abort(s, reason) => C12_AbortPost(s, reason)]_vars

\* the same statement for the reasons other than null
C12_DefinedReasonRejects ==
    [][\A s \in Signals : \A reason \in AbortReasons \ {JsNull} :
          Abort(s, reason) => C12_AbortPost(s, reason)]_vars

\* ---------------------------------------------------------------- C13
\* a handle is pending and untouched, or it was settled by exactly one
\* settlement: fulfilled by the flush, or rejected by the processor's
\* failure, by the resolver's failure or by a cancellation
C13_OneOutcome(h) ==
    \/ /\ handles[h].state = "pending"
       /\ handles[h].by = "none"
       /\ handles[h].settles = 0
    \/ /\ handles[h].state = "fulfilled"
       /\ handles[h].by = "flush"
       /\ handles[h].settles = 1
    \/ /\ handles[h].state = "rejected"
       /\ handles[h].by \in {"processor", "resolver", "cancel"}
       /\ handles[h].settles = 1

\* C13: under every interleaving of enqueue, handle.cancel, cancel(id),
\* cancel(), abort, timer callback and processor completion, each handle has
\* one of the outcomes above, no step settles (or tries to settle) a handle
\* a second time, and a settled handle is left exactly as it is.
C13_SettledAtMostOnce ==
    [][/\ \A h \in 1..Len(handles') : C13_OneOutcome(h)'
       /\ \A h \in HandleSet :
             handles[h].state # "pending" => handles'[h] = handles[h]]_vars

C13_Witness ==
    \E a, b, c \in HandleSet :
       /\ handles[a].state = "fulfilled"
       /\ handles[b].state = "rejected" /\ handles[b].by = "resolver"
       /\ Cancelled(c) /\ handles[c].value = "AbortError"
       /\ handles[c].signal # NoSignal

Generated(h) == handles[h].id[1] = "sym"

C16_ElementFor(response, id) ==
    LET slot == IF response.kind = "map" THEN id
                ELSE IF response.kind = "record" THEN PropertyKey(id)
                ELSE id[2] + 1
    IN  IF slot \in DOMAIN response.m THEN response.m[slot] ELSE Undefined

C16_Injective(response) ==
    \A x, y \in DOMAIN response.m : x # y => response.m[x] # response.m[y]

C16_Post(k, response) ==
    LET H == CallHandles(calls[k])
    IN  /\ \A h \in H :
              /\ handles'[h].state = "fulfilled"
              /\ handles'[h].value = C16_ElementFor(response, handles[h].id)
        /\ \A g \in HandleSet \ H : handles'[g] = handles[g]
        /\ C16_Injective(response) =>
              \A a, b \in H :
                 (/\ handles[a].id # handles[b].id
                  /\ handles'[a].value # Undefined
                  /\ handles'[a].value = handles'[b].value)
                   => (/\ response.kind = "record"
                       /\ PropertyKey(handles[a].id) = PropertyKey(handles[b].id))

PendingIdentities == {handles[h].id : h \in PendingHandles}

\* C17: with a max batch size N configured (fixed window or debounced), an
\* enqueue that leaves at least N distinct identities pending arms the
\* timer of that enqueue as the only timeout, due at the time of the
\* enqueue (delay 0), whatever the window's start and last enqueue times.
C17_MaxBatchSizeFlushesNow ==
    [][(/\ scheduler.maxBatchSize # Null
        /\ Len(handles') > Len(handles)
        /\ Cardinality(PendingIdentities') >= scheduler.maxBatchSize)
          => /\ timer' = Len(handles')
             /\ timeouts' = {[tid |-> timer', deadline |-> now]}]_vars

\* the enqueue that reached N came while the window had been open for a
\* while and was not over
C17_Witness ==
    /\ scheduler.maxBatchSize # Null
    /\ Cardinality(PendingIdentities) = scheduler.maxBatchSize
    /\ timer = Len(handles)
    /\ timeouts = {[tid |-> timer, deadline |-> now]}
    /\ lastRequestTime = now
    /\ firstRequestTime < now
    /\ now < firstRequestTime + (IF scheduler.kind = "fixed" THEN scheduler.windowMs
                                  ELSE scheduler.maxWaitMs)

\* ---------------------------------------------------------------- C18
\* C18: in every reachable state at most one timeout of the manager is
\* scheduled, and it is the one the timer field refers to: a timeout that a
\* later enqueue superseded is no longer scheduled, so it cannot run.
C18_AtMostOneTimer ==
    /\ Cardinality(timeouts) <= 1
    /\ \A t \in timeouts : t.tid = timer
    /\ timer # Null => \E t \in timeouts : t.tid = timer

\* the second enqueue of a window replaced the timeout of the first
C18_Witness ==
    /\ Len(handles) >= 2
    /\ {1, 2} \subseteq PendingHandles
    /\ timer = 2
    /\ timeouts = {[tid |-> 2, deadline |-> firstRequestTime + WindowMs]}
    /\ lastRequestTime > firstRequestTime

\* ---------------------------------------------------------------- C19
\* the time of the earliest enqueue whose handle is in the pending map
EarliestPendingEnqueue ==
    CHOOSE t \in {enqueuedAt[h] : h \in PendingHandles} :
        \A h \in PendingHandles : t <= enqueuedAt[h]

\* C19 as written: while the pending map is non-empty, window-start is the
\* time of the earliest enqueue whose handle is still pending (so it moves
\* when the first handle of the window is cancelled and others remain), and
\* window-last is the time of the latest enqueue of the window.
C19_StartIsEarliestPending ==
    Len(pending) > 0 =>
       /\ firstRequestTime = EarliestPendingEnqueue
       /\ lastRequestTime = winLast

\* C19 as amended: while the pending map is non-empty, window-start is the
\* time of the first enqueue of the current window, that is of the enqueue
\* that found the map empty, and stays so when that enqueue's handle is
\* cancelled while others remain (it is then earlier than every pending
\* enqueue); window-last is the time of the latest enqueue of the window.
C19_StartIsFirstEnqueueOfWindow ==
    Len(pending) > 0 =>
       /\ firstRequestTime = winStart
       /\ firstRequestTime <= EarliestPendingEnqueue
       /\ lastRequestTime = winLast
       /\ lastRequestTime >= firstRequestTime

\* the first handle of the window was cancelled and a later one remains
C19_Witness ==
    /\ Len(pending) > 0
    /\ firstRequestTime < EarliestPendingEnqueue
    /\ \E h \in HandleSet :
          /\ Cancelled(h)
          /\ \A g \in PendingHandles : handles[g].win = handles[h].win /\ h < g

EntriesOf(h) == {i \in 1..Len(pending) : h \in EntryHandles(pending[i])}

\* C21: every entry of the pending map holds at least one handle, holds no
\* handle twice, is stored under the identity of its handles, and all its
\* handles are unsettled and not marked cancelled; no two entries have the
\* same identity; and every unsettled handle is either in exactly one entry
\* of the pending map or in the snapshot of an in-flight invocation, while
\* a settled handle is in no entry.
C21_PendingMapWellFormed ==
    /\ \A i \in 1..Len(pending) :
          /\ Len(pending[i].requests) >= 1
          /\ Cardinality(EntryHandles(pending[i])) = Len(pending[i].requests)
          /\ \A j \in 1..Len(pending[i].requests) :
                /\ ~pending[i].requests[j].cancelled
                /\ handles[pending[i].requests[j].promise].state = "pending"
                /\ handles[pending[i].requests[j].promise].id = pending[i].id
          /\ \A k \in 1..Len(pending) : k # i => pending[k].id # pending[i].id
    /\ \A h \in HandleSet :
          IF handles[h].state = "pending"
          THEN \/ Cardinality(EntriesOf(h)) = 1 /\ h \notin InFlightHandles
               \/ EntriesOf(h) = {} /\ h \in InFlightHandles
          ELSE EntriesOf(h) = {}

\* two entries, one of them left with a single handle after a sibling of
\* that handle was cancelled through its own cancel
C21_Witness ==
    /\ Len(pending) = 2
    /\ Len(handles) = 3
    /\ \E a, b, c \in HandleSet :
          /\ Cancelled(a) /\ handles[a].value = "reason"
          /\ handles[b].id = handles[a].id /\ b # a
          /\ EntriesOf(b) # {} /\ EntriesOf(c) # {}
          /\ handles[c].id # handles[a].id

\* ---------------------------------------------------------------- C22
C22_Post(id) ==
    LET i == PendingIndex(pending, id)
    IN  IF i = 0
        THEN UNCHANGED vars
        ELSE LET H == EntryHandles(pending[i])
             IN  /\ \A h \in H :
                       /\ handles'[h].state = "rejected"
                       /\ handles'[h].value = BatchCancellationError
                       /\ handles'[h].by = "cancel"
                 /\ \A g \in HandleSet \ H : handles'[g] = handles[g]
                 /\ pending' = RemoveAt(pending, i)
                 /\ calls' = calls
                 /\ IF Len(pending) > 1
                    THEN /\ timer' = timer
                         /\ timeouts' = timeouts
                         /\ firstRequestTime' = firstRequestTime
                         /\ lastRequestTime' = lastRequestTime
                    ELSE /\ timer' = Null
                         /\ timeouts' = {}
                         /\ firstRequestTime' = Null
                         /\ lastRequestTime' = Null

\* C22: cancel(id) for an identity with a pending entry rejects exactly
\* the handles of that entry with a BatchCancellationError and removes the
\* entry; the other entries, their handles, the invocations, and, while an
\* entry remains, the timer, its timeout and both timestamps are unchanged;
\* when the map became empty the window state is reset; for an identity
\* without pending entry nothing changes.
C22_CancelIdFrame ==
    [][\A id \in KnownIds : Cancel(id) => C22_Post(id)]_vars

\* both handles of one identity were cancelled together while a handle of
\* another identity, enqueued before them, is pending under the timer of
\* the last enqueue
C22_Witness ==
    /\ Len(handles) = 3
    /\ handles[2].id = handles[3].id
    /\ handles[1].id # handles[2].id
    /\ Cancelled(2) /\ Cancelled(3)
    /\ handles[2].value = BatchCancellationError
    /\ handles[3].value = BatchCancellationError
    /\ PendingHandles = {1}
    /\ timer = 3
    /\ handles[3].win = 1

\* ---------------------------------------------------------------- C23
\* C23: in every reachable state, handle.cancel(reason) on a handle of the
\* pending map rejects it with the reason, or with a BatchCancellationError
\* when the reason is absent (undefined or null); and handle.cancel on a
\* handle that is settled, by an earlier cancel of its own, by cancel(id)
\* or cancel(), or by a flush, changes nothing at all: not the handle, not
\* the pending map (also when a later handle of the same identity is in
\* it), not the timer or the timestamps, not any other handle.
C23_HandleCancelIdempotent ==
    \A h \in HandleSet : \A reason \in CancelReasons \cup {JsNull} :
       LET after == HandleCancel(Store, h, reason)
       IN  /\ h \in PendingHandles =>
                 /\ after.handles[h].state = "rejected"
                 /\ after.handles[h].value =
                       (IF reason \in {Undefined, JsNull}
                        THEN BatchCancellationError ELSE reason)
                 /\ HandleCancel(after, h, reason) = after
           /\ handles[h].state # "pending" => after = Store

\* a handle cancelled with a reason, and a later handle of the same
\* identity pending in the same window: a second cancel of the first one
\* finds the identity's entry without its own request
C23_Witness ==
    \E a, b \in HandleSet :
       /\ a < b
       /\ handles[a].id = handles[b].id
       /\ Cancelled(a) /\ handles[a].value = "reason"
       /\ b \in PendingHandles
       /\ \E c \in HandleSet : handles[c].state = "fulfilled"

\* ---------------------------------------------------------------- C24
\* what the timer callback would do in the current state
FlushNow == TriggerBatch(Store, calls, now, winStart, winLast)

EntriesInCreationOrder(entries, w) ==
    /\ \A i, j \in 1..Len(entries) : i < j => entries[i].creator < entries[j].creator
    /\ \A i \in 1..Len(entries) :
          LET e == entries[i]
          IN  /\ handles[e.creator].id = e.id
              /\ handles[e.creator].win = w
              /\ \A h \in WindowHandles(w) :
                    handles[h].id = e.id =>
                       IF h < e.creator THEN Cancelled(h) /\ h \notin EntryHandles(e)
                       ELSE h \in EntryHandles(e) \/ Cancelled(h)

Unsettled == {h \in HandleSet : handles[h].state = "pending"}

Observers(s) == {signals[s].listeners[i] : i \in 1..Len(signals[s].listeners)}

\* C27: once a signal has fired no listener is attached to it, and a
\* listener that is attached belongs to a handle that is not settled: the
\* listener of a handle is gone once the handle has settled, through the
\* abort, a cancel or a flush.
C27_NoObserverAfterSettlement ==
    \A s \in Signals :
       /\ signals[s].aborted => Observers(s) = {}
       /\ \A h \in Observers(s) : handles[h].state = "pending"

\* ---------------------------------------------------------------- C28
\* the clock runs on while a timeout is armed for a later time
TickLive ==
    /\ \/ now < MaxTime
       \/ \E t \in timeouts : now < t.deadline
    /\ now' = now + 1
    /\ UNCHANGED <<scheduler, pending, firstRequestTime, lastRequestTime, timer,
                   timeouts, handles, signals, calls, winStart, winLast, enqueuedAt>>

\* the callers enqueue MaxLiveHandles requests, up to time MaxTime
EnqueueLive(idOpt, signal) ==
    /\ now <= MaxTime
    /\ Len(handles) < MaxLiveHandles
    /\ Enqueue(idOpt, "p1", signal)

\* the timer callback of some armed timeout that is due
FlushDue == \E t \in timeouts : TimerFire(t)

\* the processor's promise for invocation k settles: fulfilled, and the
\* resolver returns for every entry, or rejected
LiveOutcome == [kind |-> "return", v |-> "r1"]
ProcessorCompletes(k) ==
    \/ ProcessorResolve(k, [i \in 1..Len(calls[k].entries) |-> LiveOutcome])
    \/ ProcessorReject(k, "procError")

NextLive ==
    \/ \E idOpt \in AbortIds, signal \in Signals \cup {NoSignal} :
          EnqueueLive(idOpt, signal)
    \/ \E s \in Signals : Abort(s, "AbortError")
    \/ \E id \in KnownIds \cup {NoId} : Cancel(id)
    \/ \E h \in 1..Len(handles) : HandleCancelCall(h, Undefined)
    \/ FlushDue
    \/ \E k \in 1..Len(calls) : ProcessorCompletes(k)
    \/ TickLive

\* time passes, a due timeout fires, and every invocation completes
FairnessLive ==
    /\ WF_vars(TickLive)
    /\ WF_vars(FlushDue)
    /\ \A k \in 1..MaxLiveHandles : WF_vars(ProcessorCompletes(k))

SpecLive == Init /\ [][NextLive]_vars /\ FairnessLive

Completes(k) == calls[k].status = "inflight" /\ calls'[k].status # "inflight"

====
